---- MODULE Spec2Model ----
(***************************************************************************)
(* Singly linked list with head / tail / length tracking                   *)
(* (src/Linkedlists/linkedlist.js).                                        *)
(*                                                                         *)
(* The heap is the sequence `nodes`: a node reference is an index into it  *)
(* and `new Node(value)` appends a record, so that every allocation yields *)
(* a reference that was never used before.  NULL (0) is JavaScript's null. *)
(* Every method is an operator from the list object (a record with the     *)
(* fields head, tail, length and the heap) to the list object after the    *)
(* call together with the value returned; a TypeError raised by reading a  *)
(* property of null is the return kind "throw", with the object as it was  *)
(* when the statement threw.                                               *)
(*                                                                         *)
(* The array-like container Myarray (src/Arrays/Array.js) is modelled the  *)
(* same way over the variables data and length, under a specification of   *)
(* its own (ArraySpec); the list's specifications leave data empty.        *)
(***************************************************************************)
EXTENDS Integers, Sequences, FiniteSets, TLC

VARIABLES head, tail, length, nodes, ret, op, pre, opBefore, data

vars == <<head, tail, length, nodes, ret, op, pre, opBefore, data>>

\* Number of Node objects allocated in one run.
MaxNodes == 3

NULL == 0

Values == {"a", "b"}

\* Indices handed to get, set, insert and remove: below, inside and above
\* the valid range of every list the model builds.
Indices == -1 .. (MaxNodes + 1)

(***************************************************************************)
(* Node                                                                    *)
(***************************************************************************)
Node(value) == [value |-> value, next |-> NULL]

(***************************************************************************)
(* Return values                                                           *)
(***************************************************************************)
RetThis      == [kind |-> "this",      node |-> NULL, bool |-> FALSE]
RetUndefined == [kind |-> "undefined", node |-> NULL, bool |-> FALSE]
RetNull      == [kind |-> "null",      node |-> NULL, bool |-> FALSE]
RetThrow     == [kind |-> "throw",     node |-> NULL, bool |-> FALSE]
RetBool(b)   == [kind |-> "boolean",   node |-> NULL, bool |-> b]
\* A node reference, or null when the reference is null.
RetNode(n)   == IF n = NULL THEN RetNull
                ELSE [kind |-> "node", node |-> n, bool |-> FALSE]

Result(L, r) == [L |-> L, ret |-> r]

(***************************************************************************)
(* LinkedList                                                              *)
(***************************************************************************)
LinkedList == [head |-> NULL, tail |-> NULL, length |-> 0, nodes |-> <<>>]

This == [head |-> head, tail |-> tail, length |-> length, nodes |-> nodes]

push(L, value) ==
    LET heap    == Append(L.nodes, Node(value))
        newNode == Len(heap)
    IN  IF L.head = NULL
        THEN Result([head |-> newNode, tail |-> newNode,
                     length |-> L.length + 1, nodes |-> heap], RetThis)
        ELSE IF L.tail = NULL
        THEN Result([L EXCEPT !.nodes = heap], RetThrow)
        ELSE Result([head |-> L.head, tail |-> newNode,
                     length |-> L.length + 1,
                     nodes |-> [heap EXCEPT ![L.tail].next = newNode]],
                    RetThis)

\* The loop of pop with pre assigned after temp has moved: pre ends on the
\* last node instead of the one before it.
RECURSIVE popLoop_preIsTemp(_, _, _, _)
popLoop_preIsTemp(heap, temp, pre_, steps) ==
    IF heap[temp].next # NULL
    THEN popLoop_preIsTemp(heap, heap[temp].next, heap[temp].next, steps + 1)
    ELSE [temp |-> temp, pre |-> pre_, steps |-> steps]

\* The while loop of pop: temp walks to the last node, pre stays one behind;
\* steps counts the iterations of the loop body.
RECURSIVE popLoop(_, _, _, _)
popLoop(heap, temp, pre_, steps) ==
    IF heap[temp].next # NULL
    THEN popLoop(heap, heap[temp].next, temp, steps + 1)
    ELSE [temp |-> temp, pre |-> pre_, steps |-> steps]

\* pop that leaves head and tail in place after removing the only node.
pop_keepHead(L) ==
    IF L.head = NULL
    THEN Result(L, RetUndefined)
    ELSE LET w    == popLoop(L.nodes, L.head, L.head, 0)
             heap == [L.nodes EXCEPT ![w.pre].next = NULL]
         IN  Result([head |-> L.head, tail |-> w.pre,
                     length |-> L.length - 1, nodes |-> heap], RetNode(w.temp))

\* pop without the check for the empty list: reads next of null.
pop_noGuard(L) ==
    IF L.head = NULL
    THEN Result(L, RetThrow)
    ELSE LET w      == popLoop(L.nodes, L.head, L.head, 0)
             heap   == [L.nodes EXCEPT ![w.pre].next = NULL]
             newLen == L.length - 1
         IN  IF newLen = 0
             THEN Result([head |-> NULL, tail |-> NULL,
                          length |-> newLen, nodes |-> heap], RetNode(w.temp))
             ELSE Result([head |-> L.head, tail |-> w.pre,
                          length |-> newLen, nodes |-> heap], RetNode(w.temp))

\* pop that moves tail back but does not clear the new tail's next.
pop_noCut(L) ==
    IF L.head = NULL
    THEN Result(L, RetUndefined)
    ELSE LET w      == popLoop(L.nodes, L.head, L.head, 0)
             newLen == L.length - 1
         IN  IF newLen = 0
             THEN Result([head |-> NULL, tail |-> NULL,
                          length |-> newLen, nodes |-> L.nodes], RetNode(w.temp))
             ELSE Result([head |-> L.head, tail |-> w.pre,
                          length |-> newLen, nodes |-> L.nodes], RetNode(w.temp))

pop(L) ==
    IF L.head = NULL
    THEN Result(L, RetUndefined)
    ELSE LET w      == popLoop(L.nodes, L.head, L.head, 0)
             heap   == [L.nodes EXCEPT ![w.pre].next = NULL]
             newLen == L.length - 1
         IN  IF newLen = 0
             THEN Result([head |-> NULL, tail |-> NULL,
                          length |-> newLen, nodes |-> heap], RetNode(w.temp))
             ELSE Result([head |-> L.head, tail |-> w.pre,
                          length |-> newLen, nodes |-> heap], RetNode(w.temp))

\* unshift that does not link the new node to the old head.
unshift_noLink(L, value) ==
    LET heap    == Append(L.nodes, Node(value))
        newNode == Len(heap)
    IN  IF L.head = NULL
        THEN Result([head |-> newNode, tail |-> newNode,
                     length |-> L.length + 1, nodes |-> heap], RetThis)
        ELSE Result([head |-> newNode, tail |-> L.tail,
                     length |-> L.length + 1, nodes |-> heap], RetThis)

\* unshift that does not count the new node.
unshift_noLength(L, value) ==
    LET heap    == Append(L.nodes, Node(value))
        newNode == Len(heap)
    IN  IF L.head = NULL
        THEN Result([head |-> newNode, tail |-> newNode,
                     length |-> L.length, nodes |-> heap], RetThis)
        ELSE Result([head |-> newNode, tail |-> L.tail,
                     length |-> L.length,
                     nodes |-> [heap EXCEPT ![newNode].next = L.head]],
                    RetThis)

unshift(L, value) ==
    LET heap    == Append(L.nodes, Node(value))
        newNode == Len(heap)
    IN  IF L.head = NULL
        THEN Result([head |-> newNode, tail |-> newNode,
                     length |-> L.length + 1, nodes |-> heap], RetThis)
        ELSE Result([head |-> newNode, tail |-> L.tail,
                     length |-> L.length + 1,
                     nodes |-> [heap EXCEPT ![newNode].next = L.head]],
                    RetThis)

\* shift that returns the old head with its next still set.
shift_noDetach(L) ==
    IF L.head = NULL
    THEN Result(L, RetUndefined)
    ELSE LET temp   == L.head
             newLen == L.length - 1
         IN  Result([head   |-> L.nodes[L.head].next,
                     tail   |-> IF newLen = 0 THEN NULL ELSE L.tail,
                     length |-> newLen,
                     nodes  |-> L.nodes],
                    RetNode(temp))

\* shift that does not clear tail when it removes the only node.
shift_keepTail(L) ==
    IF L.head = NULL
    THEN Result(L, RetUndefined)
    ELSE LET temp == L.head
         IN  Result([head   |-> L.nodes[L.head].next,
                     tail   |-> L.tail,
                     length |-> L.length - 1,
                     nodes  |-> [L.nodes EXCEPT ![temp].next = NULL]],
                    RetNode(temp))

shift(L) ==
    IF L.head = NULL
    THEN Result(L, RetUndefined)
    ELSE LET temp   == L.head
             newLen == L.length - 1
         IN  Result([head   |-> L.nodes[L.head].next,
                     tail   |-> IF newLen = 0 THEN NULL ELSE L.tail,
                     length |-> newLen,
                     nodes  |-> [L.nodes EXCEPT ![temp].next = NULL]],
                    RetNode(temp))

\* The while loop of get: counter runs up to index, temp follows next; reading
\* next of null throws.
RECURSIVE getLoop(_, _, _, _)
getLoop(heap, temp, counter, index) ==
    IF counter # index
    THEN IF temp = NULL
         THEN [threw |-> TRUE, temp |-> NULL, steps |-> counter]
         ELSE getLoop(heap, heap[temp].next, counter + 1, index)
    ELSE [threw |-> FALSE, temp |-> temp, steps |-> counter]

\* get that walks one step too many.
get_offByOne(L, index) ==
    IF index < 0 \/ index >= L.length
    THEN Result(L, RetNull)
    ELSE LET w == getLoop(L.nodes, L.head, 0, index + 1)
         IN  IF w.threw THEN Result(L, RetThrow)
             ELSE Result(L, RetNode(w.temp))

get(L, index) ==
    IF index < 0 \/ index >= L.length
    THEN Result(L, RetNull)
    ELSE LET w == getLoop(L.nodes, L.head, 0, index)
         IN  IF w.threw THEN Result(L, RetThrow)
             ELSE Result(L, RetNode(w.temp))

\* set that calls `get(index)` instead of `this.get(index)`: ReferenceError.
set_getUnbound(L, index, value) == Result(L, RetThrow)

set(L, index, value) ==
    LET foundNode == get(L, index).ret
    IN  IF foundNode.kind = "throw" THEN Result(L, RetThrow)
        ELSE IF foundNode.kind = "node"
        THEN Result([L EXCEPT !.nodes[foundNode.node].value = value],
                    RetBool(TRUE))
        ELSE Result(L, RetBool(FALSE))

\* !!x of a call that returned the list: true; a throw passes through.
Truthy(r) == IF r.ret.kind = "throw" THEN r ELSE Result(r.L, RetBool(TRUE))

\* insert whose splice does not count the new node.
insert_noLength(L, index, value) ==
    IF index < 0 \/ index > L.length THEN Result(L, RetBool(FALSE))
    ELSE IF index = L.length THEN Truthy(push(L, value))
    ELSE IF index = 0 THEN Truthy(unshift(L, value))
    ELSE LET heap    == Append(L.nodes, Node(value))
             newNode == Len(heap)
             L1      == [L EXCEPT !.nodes = heap]
             temp    == get(L1, index - 1).ret
         IN  IF temp.kind # "node" THEN Result(L1, RetThrow)
             ELSE Result([L1 EXCEPT
                            !.nodes = [heap EXCEPT
                                ![newNode].next = heap[temp.node].next,
                                ![temp.node].next = newNode]],
                         RetBool(TRUE))

\* insert with the range check `!index < 0`, which no index satisfies.
insert_negBug(L, index, value) ==
    IF index > L.length THEN Result(L, RetBool(FALSE))
    ELSE IF index = L.length THEN Truthy(push(L, value))
    ELSE IF index = 0 THEN Truthy(unshift(L, value))
    ELSE LET heap    == Append(L.nodes, Node(value))
             newNode == Len(heap)
             L1      == [L EXCEPT !.nodes = heap]
             temp    == get(L1, index - 1).ret
         IN  IF temp.kind # "node" THEN Result(L1, RetThrow)
             ELSE Result([L1 EXCEPT
                            !.nodes = [heap EXCEPT
                                ![newNode].next = heap[temp.node].next,
                                ![temp.node].next = newNode],
                            !.length = L.length + 1],
                         RetBool(TRUE))

\* insert that sends index 0 and index length both to push.
insert_frontToPush(L, index, value) ==
    IF index < 0 \/ index > L.length THEN Result(L, RetBool(FALSE))
    ELSE IF index = L.length \/ index = 0 THEN Truthy(push(L, value))
    ELSE LET heap    == Append(L.nodes, Node(value))
             newNode == Len(heap)
             L1      == [L EXCEPT !.nodes = heap]
             temp    == get(L1, index - 1).ret
         IN  IF temp.kind # "node" THEN Result(L1, RetThrow)
             ELSE Result([L1 EXCEPT
                            !.nodes = [heap EXCEPT
                                ![newNode].next = heap[temp.node].next,
                                ![temp.node].next = newNode],
                            !.length = L.length + 1],
                         RetBool(TRUE))

\* insert that looks up the node at index instead of the one before it.
insert_wrongPredecessor(L, index, value) ==
    IF index < 0 \/ index > L.length THEN Result(L, RetBool(FALSE))
    ELSE IF index = L.length THEN Truthy(push(L, value))
    ELSE IF index = 0 THEN Truthy(unshift(L, value))
    ELSE LET heap    == Append(L.nodes, Node(value))
             newNode == Len(heap)
             L1      == [L EXCEPT !.nodes = heap]
             temp    == get(L1, index).ret
         IN  IF temp.kind # "node" THEN Result(L1, RetThrow)
             ELSE Result([L1 EXCEPT
                            !.nodes = [heap EXCEPT
                                ![newNode].next = heap[temp.node].next,
                                ![temp.node].next = newNode],
                            !.length = L.length + 1],
                         RetBool(TRUE))

insert(L, index, value) ==
    IF index < 0 \/ index > L.length THEN Result(L, RetBool(FALSE))
    ELSE IF index = L.length THEN Truthy(push(L, value))
    ELSE IF index = 0 THEN Truthy(unshift(L, value))
    ELSE LET heap    == Append(L.nodes, Node(value))
             newNode == Len(heap)
             L1      == [L EXCEPT !.nodes = heap]
             temp    == get(L1, index - 1).ret
         IN  IF temp.kind # "node" THEN Result(L1, RetThrow)
             ELSE Result([L1 EXCEPT
                            !.nodes = [heap EXCEPT
                                ![newNode].next = heap[temp.node].next,
                                ![temp.node].next = newNode],
                            !.length = L.length + 1],
                         RetBool(TRUE))

\* remove without the delegation of the last index to pop.
remove_noPop(L, index) ==
    IF index < 0 \/ index >= L.length THEN Result(L, RetUndefined)
    ELSE IF index = 0 THEN shift(L)
    ELSE LET beforeNode == get(L, index - 1).ret
         IN  IF beforeNode.kind # "node" THEN Result(L, RetThrow)
             ELSE LET temp == L.nodes[beforeNode.node].next
                  IN  IF temp = NULL THEN Result(L, RetThrow)
                      ELSE Result([L EXCEPT
                                     !.nodes = [L.nodes EXCEPT
                                         ![beforeNode.node].next = L.nodes[temp].next,
                                         ![temp].next = NULL],
                                     !.length = L.length - 1],
                                  RetNode(temp))

\* remove that returns the target without relinking its predecessor.
remove_noSkip(L, index) ==
    IF index < 0 \/ index >= L.length THEN Result(L, RetUndefined)
    ELSE IF index = 0 THEN shift(L)
    ELSE IF index = L.length - 1 THEN pop(L)
    ELSE LET beforeNode == get(L, index - 1).ret
         IN  IF beforeNode.kind # "node" THEN Result(L, RetThrow)
             ELSE LET temp == L.nodes[beforeNode.node].next
                  IN  IF temp = NULL THEN Result(L, RetThrow)
                      ELSE Result([L EXCEPT
                                     !.nodes = [L.nodes EXCEPT
                                         ![temp].next = NULL],
                                     !.length = L.length - 1],
                                  RetNode(temp))

\* remove with the range check `index > this.length`: index = length passes.
remove_offByOne(L, index) ==
    IF index < 0 \/ index > L.length THEN Result(L, RetUndefined)
    ELSE IF index = 0 THEN shift(L)
    ELSE IF index = L.length - 1 THEN pop(L)
    ELSE LET beforeNode == get(L, index - 1).ret
         IN  IF beforeNode.kind # "node" THEN Result(L, RetThrow)
             ELSE LET temp == L.nodes[beforeNode.node].next
                  IN  IF temp = NULL THEN Result(L, RetThrow)
                      ELSE Result([L EXCEPT
                                     !.nodes = [L.nodes EXCEPT
                                         ![beforeNode.node].next = L.nodes[temp].next,
                                         ![temp].next = NULL],
                                     !.length = L.length - 1],
                                  RetNode(temp))

\* remove that does not count the removed node.
remove_noLength(L, index) ==
    IF index < 0 \/ index >= L.length THEN Result(L, RetUndefined)
    ELSE IF index = 0 THEN shift(L)
    ELSE IF index = L.length - 1 THEN pop(L)
    ELSE LET beforeNode == get(L, index - 1).ret
         IN  IF beforeNode.kind # "node" THEN Result(L, RetThrow)
             ELSE LET temp == L.nodes[beforeNode.node].next
                  IN  IF temp = NULL THEN Result(L, RetThrow)
                      ELSE Result([L EXCEPT
                                     !.nodes = [L.nodes EXCEPT
                                         ![beforeNode.node].next = L.nodes[temp].next,
                                         ![temp].next = NULL]],
                                  RetNode(temp))

remove(L, index) ==
    IF index < 0 \/ index >= L.length THEN Result(L, RetUndefined)
    ELSE IF index = 0 THEN shift(L)
    ELSE IF index = L.length - 1 THEN pop(L)
    ELSE LET beforeNode == get(L, index - 1).ret
         IN  IF beforeNode.kind # "node" THEN Result(L, RetThrow)
             ELSE LET temp == L.nodes[beforeNode.node].next
                  IN  IF temp = NULL THEN Result(L, RetThrow)
                      ELSE Result([L EXCEPT
                                     !.nodes = [L.nodes EXCEPT
                                         ![beforeNode.node].next = L.nodes[temp].next,
                                         ![temp].next = NULL],
                                     !.length = L.length - 1],
                                  RetNode(temp))

\* The traversal of printList: the values met by following next from head.
RECURSIVE printLoop(_, _, _)
printLoop(heap, current, arr) ==
    IF current # NULL
    THEN printLoop(heap, heap[current].next, Append(arr, heap[current].value))
    ELSE arr

printList(L) ==
    [list   |-> printLoop(L.nodes, L.head, <<>>),
     length |-> L.length,
     head   |-> IF L.head # NULL THEN L.nodes[L.head].value ELSE "null",
     tail   |-> IF L.tail # NULL THEN L.nodes[L.tail].value ELSE "null"]

(***************************************************************************)
(* The state machine: one caller, one list, one call at a time.  op is the *)
(* call made last, ret what it returned, pre the list object before it and  *)
(* opBefore the name of the call made before that one.                     *)
(***************************************************************************)
Call(name, index, value) == [name |-> name, index |-> index, value |-> value]

Init ==
    /\ head = LinkedList.head
    /\ tail = LinkedList.tail
    /\ length = LinkedList.length
    /\ nodes = LinkedList.nodes
    /\ ret = RetThis
    /\ op = Call("new", 0, "none")
    /\ pre = LinkedList
    /\ opBefore = "new"
    /\ data = <<>>

\* A call that has thrown ends the run of the caller.
Apply(r, call) ==
    /\ ret.kind # "throw"
    /\ Len(r.L.nodes) <= MaxNodes
    /\ head' = r.L.head
    /\ tail' = r.L.tail
    /\ length' = r.L.length
    /\ nodes' = r.L.nodes
    /\ ret' = r.ret
    /\ op' = call
    /\ pre' = This
    /\ opBefore' = op.name
    /\ UNCHANGED data

Push    == \E v \in Values : Apply(push(This, v), Call("push", 0, v))
Pop     == Apply(pop(This), Call("pop", 0, "none"))
Unshift == \E v \in Values : Apply(unshift(This, v), Call("unshift", 0, v))
Shift   == Apply(shift(This), Call("shift", 0, "none"))
Get     == \E i \in Indices : Apply(get(This, i), Call("get", i, "none"))
Set     == \E i \in Indices, v \in Values :
               Apply(set(This, i, v), Call("set", i, v))
Insert  == \E i \in Indices, v \in Values :
               Apply(insert(This, i, v), Call("insert", i, v))
Remove  == \E i \in Indices : Apply(remove(This, i), Call("remove", i, "none"))

Next == Push \/ Pop \/ Unshift \/ Shift \/ Get \/ Set \/ Insert \/ Remove

Spec == Init /\ [][Next]_vars

(***************************************************************************)
(* The example usage at the end of the file: three pushes, pop, unshift,   *)
(* insert(1, v), remove(2), with printList after each.  The values pushed  *)
(* are drawn from ScenarioValues; the run of the file is the one that      *)
(* draws 21, 26, 29, 10 and the inserted value in this order.  The call    *)
(* made last tells how far the script has run.                             *)
(***************************************************************************)
ScenarioValues == {"21", "26", "29", "10", "X", "INSERTED"}

Run(r, call) ==
    /\ ret.kind # "throw"
    /\ head' = r.L.head
    /\ tail' = r.L.tail
    /\ length' = r.L.length
    /\ nodes' = r.L.nodes
    /\ ret' = r.ret
    /\ op' = call
    /\ pre' = This
    /\ opBefore' = op.name
    /\ UNCHANGED data

ScenarioPush ==
    /\ op.name \in {"new", "push"}
    /\ Len(nodes) < 3
    /\ \E v \in ScenarioValues : Run(push(This, v), Call("push", 0, v))

ScenarioPop ==
    /\ op.name = "push"
    /\ Len(nodes) = 3
    /\ Run(pop(This), Call("pop", 0, "none"))

ScenarioUnshift ==
    /\ op.name = "pop"
    /\ \E v \in ScenarioValues : Run(unshift(This, v), Call("unshift", 0, v))

ScenarioInsert ==
    /\ op.name = "unshift"
    /\ \E v \in ScenarioValues : Run(insert(This, 1, v), Call("insert", 1, v))

ScenarioRemove ==
    /\ op.name = "insert"
    /\ Run(remove(This, 2), Call("remove", 2, "none"))

ScenarioNext ==
    ScenarioPush \/ ScenarioPop \/ ScenarioUnshift \/ ScenarioInsert
        \/ ScenarioRemove

ScenarioSpec == Init /\ [][ScenarioNext]_vars

(***************************************************************************)
(* Myarray (src/Arrays/Array.js): an object `data` keyed by index and a    *)
(* length.  data is a function whose domain is the set of keys present;    *)
(* reading a key that is absent gives undefined.                           *)
(***************************************************************************)
\* Largest length the container reaches.
MaxArray == 3

ArrayIndices == -1 .. MaxArray

Read(d, k) == IF k \in DOMAIN d THEN d[k] ELSE "undefined"

Assign(d, k, v) == [x \in (DOMAIN d) \cup {k} |-> IF x = k THEN v ELSE d[x]]

Delete(d, k) == [x \in (DOMAIN d) \ {k} |-> d[x]]

ArrayRet(kind, value, index) == [kind |-> kind, value |-> value, index |-> index]

ArrayResult(A, r) == [A |-> A, ret |-> r]

Myarray == [data |-> <<>>, length |-> 0]

ArrayThis == [data |-> data, length |-> length]

Myarray_push(A, v) ==
    ArrayResult([data |-> Assign(A.data, A.length, v), length |-> A.length + 1],
                ArrayRet("data", "none", 0))

Myarray_get(A, index) ==
    IF index >= A.length
    THEN ArrayResult(A, ArrayRet("undefined", "none", 0))
    ELSE IF index \in DOMAIN A.data
    THEN ArrayResult(A, ArrayRet("value", A.data[index], 0))
    ELSE ArrayResult(A, ArrayRet("undefined", "none", 0))

\* The for loop of getByvalue.
RECURSIVE getByvalueLoop(_, _, _)
getByvalueLoop(A, value, i) ==
    IF i < A.length
    THEN IF Read(A.data, i) = value THEN i
         ELSE getByvalueLoop(A, value, i + 1)
    ELSE -1

Myarray_getByvalue(A, value) ==
    ArrayResult(A, ArrayRet("index", "none", getByvalueLoop(A, value, 0)))

Myarray_pop(A) ==
    IF A.length <= 0
    THEN ArrayResult(A, ArrayRet("false", "none", 0))
    ELSE ArrayResult([data |-> Delete(A.data, A.length - 1),
                      length |-> A.length - 1],
                     ArrayRet("value", Read(A.data, A.length - 1), 0))

\* The for loop of shift: every element moves down by one key.
RECURSIVE shiftLoop(_, _, _)
shiftLoop(d, i, len) ==
    IF i < len - 1
    THEN shiftLoop(Assign(d, i, Read(d, i + 1)), i + 1, len)
    ELSE d

\* shift that does not delete the last key after moving the elements down.
Myarray_shift_noDelete(A) ==
    IF A.length = 0
    THEN ArrayResult(A, ArrayRet("undefined", "none", 0))
    ELSE ArrayResult([data |-> shiftLoop(A.data, 0, A.length),
                      length |-> A.length - 1],
                     ArrayRet("value", Read(A.data, 0), 0))

Myarray_shift(A) ==
    IF A.length = 0
    THEN ArrayResult(A, ArrayRet("undefined", "none", 0))
    ELSE ArrayResult([data |-> Delete(shiftLoop(A.data, 0, A.length),
                                      A.length - 1),
                      length |-> A.length - 1],
                     ArrayRet("value", Read(A.data, 0), 0))

ArrayInit ==
    /\ data = Myarray.data
    /\ length = Myarray.length
    /\ ret = ArrayRet("undefined", "none", 0)
    /\ op = Call("new", 0, "none")
    /\ pre = Myarray
    /\ opBefore = "new"
    /\ head = NULL
    /\ tail = NULL
    /\ nodes = <<>>

ArrayApply(r, call) ==
    /\ r.A.length <= MaxArray
    /\ data' = r.A.data
    /\ length' = r.A.length
    /\ ret' = r.ret
    /\ op' = call
    /\ pre' = ArrayThis
    /\ opBefore' = op.name
    /\ UNCHANGED <<head, tail, nodes>>

ArrayPush  == \E v \in Values :
                  ArrayApply(Myarray_push(ArrayThis, v), Call("push", 0, v))
ArrayGet   == \E i \in ArrayIndices :
                  ArrayApply(Myarray_get(ArrayThis, i), Call("get", i, "none"))
ArrayGetByvalue ==
    \E v \in Values :
        ArrayApply(Myarray_getByvalue(ArrayThis, v), Call("getByvalue", 0, v))
ArrayPop   == ArrayApply(Myarray_pop(ArrayThis), Call("pop", 0, "none"))
ArrayShift == ArrayApply(Myarray_shift(ArrayThis), Call("shift", 0, "none"))

ArrayNext == ArrayPush \/ ArrayGet \/ ArrayGetByvalue \/ ArrayPop \/ ArrayShift

ArraySpec == ArrayInit /\ [][ArrayNext]_vars

(***************************************************************************)
(* The chain of a list object, for stating the properties: the node        *)
(* references met by following next from head.  The walk stops after one   *)
(* step more than the heap has nodes, so that it is defined on a cyclic    *)
(* chain too (the result then holds a reference twice).                    *)
(***************************************************************************)
RECURSIVE ChainFrom(_, _, _)
ChainFrom(heap, n, fuel) ==
    IF n = NULL \/ fuel = 0 THEN <<>>
    ELSE <<n>> \o ChainFrom(heap, heap[n].next, fuel - 1)

Chain(L) == ChainFrom(L.nodes, L.head, Len(L.nodes) + 1)

ValuesOf(L) == [i \in 1 .. Len(Chain(L)) |-> L.nodes[Chain(L)[i]].value]

Distinct(seq) == \A i, j \in 1 .. Len(seq) : seq[i] = seq[j] => i = j

InChain(L, n) == \E i \in 1 .. Len(Chain(L)) : Chain(L)[i] = n

Removals == {"pop", "shift", "remove"}

(***************************************************************************)
(* C1: in every reachable state, length is 0 exactly when head is absent,  *)
(* and head is absent exactly when tail is absent.                         *)
(***************************************************************************)
EmptyIffNoHeadIffNoTail ==
    /\ (length = 0) <=> (head = NULL)
    /\ (head = NULL) <=> (tail = NULL)

\* A list that held one node has been emptied by a removal.
EmptiedByRemoval ==
    /\ op.name \in Removals
    /\ pre.length = 1
    /\ length = 0
    /\ head = NULL

(***************************************************************************)
(* C2: in every reachable state with length > 0, following next from head  *)
(* visits exactly length distinct nodes, the last one visited is tail,     *)
(* tail.next is absent and every other node of the chain has a next.       *)
(***************************************************************************)
ChainWellFormed ==
    length > 0 =>
        LET c == Chain(This)
        IN  /\ Len(c) = length
            /\ Distinct(c)
            /\ c[Len(c)] = tail
            /\ nodes[tail].next = NULL
            /\ \A i \in 1 .. (Len(c) - 1) : nodes[c[i]].next = c[i + 1]

\* A node has been spliced into the middle of a list, or one taken out of it.
SplicedInTheMiddle ==
    /\ op.index > 0
    /\ \/ op.name = "insert" /\ op.index < pre.length
       \/ op.name = "remove" /\ op.index < pre.length - 1
    /\ length # pre.length
    /\ length > 1

(***************************************************************************)
(* C3: the node returned by a successful pop, shift or remove has no next  *)
(* and is not reachable from head in the resulting list.                   *)
(***************************************************************************)
RemovedNodeDetached ==
    (op.name \in Removals /\ ret.kind = "node") =>
        /\ nodes[ret.node].next = NULL
        /\ ~InChain(This, ret.node)

\* A removal has returned a node that had a successor in the list.
RemovedNodeHadSuccessor ==
    /\ op.name \in Removals
    /\ ret.kind = "node"
    /\ pre.nodes[ret.node].next # NULL

(***************************************************************************)
(* C4: on a list of length 0, pop and shift return undefined and get(0)    *)
(* returns null; none of them throws, and head, tail and length stay       *)
(* absent, absent and 0.                                                   *)
(***************************************************************************)
EmptySignals ==
    pre.length = 0 =>
        /\ op.name \in {"pop", "shift"} =>
              /\ ret = RetUndefined
              /\ head = NULL /\ tail = NULL /\ length = 0
              /\ This = pre
        /\ (op.name = "get" /\ op.index = 0) =>
              /\ ret = RetNull
              /\ head = NULL /\ tail = NULL /\ length = 0
              /\ This = pre

\* pop or shift has been called on a list that removals had emptied.
RemovalFromEmptiedList ==
    /\ op.name \in {"pop", "shift"}
    /\ pre.length = 0
    /\ Len(pre.nodes) > 0

(***************************************************************************)
(* C5: get, set and remove with index < 0 or index >= length, and insert   *)
(* with index < 0 or index > length, return their failure result (null,    *)
(* false, undefined, false) and leave the list as it was; insert with      *)
(* index = length succeeds and appends.                                    *)
(***************************************************************************)
OutOfRange(i, len) == i < 0 \/ i >= len

IndexOutOfRangeFails ==
    /\ (op.name = "get" /\ OutOfRange(op.index, pre.length)) =>
           ret = RetNull /\ This = pre
    /\ (op.name = "set" /\ OutOfRange(op.index, pre.length)) =>
           ret = RetBool(FALSE) /\ This = pre
    /\ (op.name = "remove" /\ OutOfRange(op.index, pre.length)) =>
           ret = RetUndefined /\ This = pre
    /\ (op.name = "insert" /\ (op.index < 0 \/ op.index > pre.length)) =>
           ret = RetBool(FALSE) /\ This = pre
    /\ (op.name = "insert" /\ op.index = pre.length) =>
           /\ ret = RetBool(TRUE)
           /\ length = pre.length + 1
           /\ ValuesOf(This) = Append(ValuesOf(pre), op.value)
           /\ Chain(This) = Append(Chain(pre), tail)

\* A call with an index just outside the range of a list that is not empty.
IndexJustOutOfRange ==
    /\ op.name \in {"get", "set", "remove", "insert"}
    /\ pre.length > 0
    /\ \/ op.index = -1
       \/ op.name # "insert" /\ op.index = pre.length
       \/ op.name = "insert" /\ op.index = pre.length + 1
    /\ ret \in {RetNull, RetUndefined, RetBool(FALSE)}

(***************************************************************************)
(* C6: for 0 <= i < length, get(i) returns the node that i next-steps from *)
(* head reach (get(0) is head, get(length - 1) is tail); for any other i   *)
(* it returns null.                                                        *)
(***************************************************************************)
GetMatchesTraversal ==
    op.name = "get" =>
        IF 0 <= op.index /\ op.index < pre.length
        THEN /\ ret = RetNode(Chain(pre)[op.index + 1])
             /\ ret.kind = "node"
             /\ op.index = 0 => ret.node = pre.head
             /\ op.index = pre.length - 1 => ret.node = pre.tail
        ELSE ret = RetNull

\* get has returned a node that is neither the head nor the tail.
GotInnerNode ==
    /\ op.name = "get"
    /\ ret.kind = "node"
    /\ op.index > 0
    /\ op.index < pre.length - 1

(***************************************************************************)
(* C7: push(v) immediately followed by pop() returns a node whose value is *)
(* v and leaves the list as it was before the push: same length, same head *)
(* node, same tail node, same sequence of values, and tail.next absent.    *)
(* In a step from a state whose last call is push(v) to one whose last     *)
(* call is pop, pre is the list before the push.                           *)
(***************************************************************************)
PushPopRoundTrip ==
    [][(op.name = "push" /\ op'.name = "pop") =>
          /\ ret'.kind = "node"
          /\ nodes'[ret'.node].value = op.value
          /\ length' = pre.length
          /\ head' = pre.head
          /\ tail' = pre.tail
          /\ Chain(This') = Chain(pre)
          /\ ValuesOf(This') = ValuesOf(pre)
          /\ tail' # NULL => nodes'[tail'].next = NULL]_vars

\* pop has been called right after a push on a list that was not empty.
PoppedRightAfterPush ==
    /\ op.name = "pop"
    /\ opBefore = "push"
    /\ ret.kind = "node"
    /\ length > 0

(***************************************************************************)
(* C8: unshift(v) immediately followed by shift() returns a node whose     *)
(* value is v and leaves the list as it was before the unshift: same       *)
(* length, same head node, same tail node, same sequence of values.        *)
(***************************************************************************)
UnshiftShiftRoundTrip ==
    [][(op.name = "unshift" /\ op'.name = "shift") =>
          /\ ret'.kind = "node"
          /\ nodes'[ret'.node].value = op.value
          /\ length' = pre.length
          /\ head' = pre.head
          /\ tail' = pre.tail
          /\ Chain(This') = Chain(pre)
          /\ ValuesOf(This') = ValuesOf(pre)]_vars

\* shift has been called right after an unshift on the empty list.
ShiftedRightAfterUnshift ==
    /\ op.name = "shift"
    /\ opBefore = "unshift"
    /\ ret.kind = "node"
    /\ length = 0

(***************************************************************************)
(* C9: on a list that is not empty, pop decrements length by one, returns  *)
(* the last node of the traversal made before it, and leaves the other     *)
(* nodes in their order with tail on the former second-to-last node (tail  *)
(* is absent when the list held one node).                                 *)
(***************************************************************************)
PopRemovesLast ==
    (op.name = "pop" /\ pre.length > 0) =>
        LET c == Chain(pre)
            n == Len(c)
        IN  /\ length = pre.length - 1
            /\ ret.kind = "node"
            /\ ret.node = c[n]
            /\ pre.nodes[ret.node].value = ValuesOf(pre)[n]
            /\ nodes[ret.node].value = ValuesOf(pre)[n]
            /\ Chain(This) = SubSeq(c, 1, n - 1)
            /\ ValuesOf(This) = SubSeq(ValuesOf(pre), 1, n - 1)
            /\ tail = IF n > 1 THEN c[n - 1] ELSE NULL

\* pop has been called on a list of three nodes.
PoppedLongList ==
    /\ op.name = "pop"
    /\ pre.length = 3
    /\ length = 2

(***************************************************************************)
(* C10: insert(0, v) leaves the list in the state unshift(v) leaves it in, *)
(* insert(length, v) in the state push(v) leaves it in, on the empty list  *)
(* too; both return true.                                                  *)
(***************************************************************************)
InsertAtEndsDelegates ==
    op.name = "insert" =>
        /\ op.index = 0 =>
              /\ This = unshift(pre, op.value).L
              /\ ValuesOf(This) = <<op.value>> \o ValuesOf(pre)
              /\ ret = RetBool(TRUE)
        /\ op.index = pre.length =>
              /\ This = push(pre, op.value).L
              /\ ValuesOf(This) = Append(ValuesOf(pre), op.value)
              /\ ret = RetBool(TRUE)

\* insert(0, v) has been called on a list that was not empty.
InsertedAtFront ==
    /\ op.name = "insert"
    /\ op.index = 0
    /\ pre.length > 0
    /\ ret = RetBool(TRUE)


(***************************************************************************)
(* C11: on a list that is not empty, remove(0) returns the node shift()    *)
(* returns and leaves the list as shift() leaves it; remove(length - 1)    *)
(* does the same with respect to pop(); on a list of one node both leave   *)
(* the list empty with head and tail absent.                               *)
(***************************************************************************)
RemoveAtEndsDelegates ==
    (op.name = "remove" /\ pre.length > 0) =>
        /\ op.index = 0 =>
              /\ This = shift(pre).L
              /\ ret = shift(pre).ret
              /\ ret.kind = "node"
        /\ op.index = pre.length - 1 =>
              /\ This = pop(pre).L
              /\ ret = pop(pre).ret
              /\ ret.kind = "node"
        /\ (op.index = 0 /\ pre.length = 1) =>
              head = NULL /\ tail = NULL /\ length = 0

\* remove(length - 1) has been called on a list of more than one node.
RemovedAtBack ==
    /\ op.name = "remove"
    /\ pre.length > 1
    /\ op.index = pre.length - 1
    /\ ret.kind = "node"


(***************************************************************************)
(* C12: no public operation returns a reference to a node that is still    *)
(* part of the chain: every node returned is unreachable from head after   *)
(* the call.  (As claimed; get returns the node in place.)                 *)
(***************************************************************************)
NoChainNodeReturned ==
    ret.kind = "node" => ~InChain(This, ret.node)

(***************************************************************************)
(* C12, amended: the nodes returned by push, pop, unshift, shift, set,     *)
(* insert and remove are removed nodes, unreachable from head after the    *)
(* call; get with an index in range returns a node that is still in the    *)
(* chain.                                                                  *)
(***************************************************************************)
OnlyGetReturnsChainNode ==
    ret.kind = "node" =>
        /\ op.name \in Removals \cup {"get"}
        /\ op.name \in Removals => ~InChain(This, ret.node)
        /\ op.name = "get" => InChain(This, ret.node) /\ This = pre

\* remove has taken a node out of the middle of the list and returned it.
MiddleNodeHandedBack ==
    /\ op.name = "remove"
    /\ ret.kind = "node"
    /\ op.index > 0
    /\ op.index < pre.length - 1
    /\ InChain(pre, ret.node)

(***************************************************************************)
(* C13: no call throws: for every reachable list and every index, no       *)
(* method reads or writes a property of an absent node.                    *)
(***************************************************************************)
NoCallThrows == ret.kind # "throw"

\* insert and remove have dereferenced the predecessor they looked up.
PredecessorDereferenced ==
    /\ \/ /\ op.name = "insert"
          /\ op.index - 1 \in 0 .. (pre.length - 2)
          /\ ret = RetBool(TRUE)
       \/ /\ op.name = "remove"
          /\ op.index - 1 \in 0 .. (pre.length - 3)
          /\ ret.kind = "node"
    /\ get(pre, op.index - 1).ret.kind = "node"


(***************************************************************************)
(* C14: from the empty list, push(21), push(26), push(29), pop(),          *)
(* unshift(10), insert(1, X), remove(2) yield in order: [21,26,29] with    *)
(* length 3, head 21, tail 29; pop returns the node 29 and leaves [21,26], *)
(* length 2, tail 26; then [10,21,26], length 3, head 10; then             *)
(* [10,X,21,26], length 4; then remove returns the node 21 and leaves      *)
(* [10,X,26], length 3, head 10, tail 26.                                  *)
(* The heap holds the nodes in the order of their creation, so the values  *)
(* of its nodes tell which values the run has drawn.                       *)
(***************************************************************************)
ScenarioArgs == <<"21", "26", "29", "10", "X">>

IsScenarioRun == \A i \in 1 .. Len(nodes) : nodes[i].value = ScenarioArgs[i]

Printed(list, len, h, t) ==
    [list |-> list, length |-> len, head |-> h, tail |-> t]

ScenarioOutputs ==
    IsScenarioRun =>
        /\ (op.name = "push" /\ Len(nodes) = 3) =>
              printList(This) = Printed(<<"21", "26", "29">>, 3, "21", "29")
        /\ op.name = "pop" =>
              /\ ret.kind = "node"
              /\ nodes[ret.node].value = "29"
              /\ printList(This) = Printed(<<"21", "26">>, 2, "21", "26")
        /\ op.name = "unshift" =>
              printList(This) = Printed(<<"10", "21", "26">>, 3, "10", "26")
        /\ op.name = "insert" =>
              printList(This) = Printed(<<"10", "X", "21", "26">>, 4, "10", "26")
        /\ op.name = "remove" =>
              /\ ret.kind = "node"
              /\ nodes[ret.node].value = "21"
              /\ printList(This) = Printed(<<"10", "X", "26">>, 3, "10", "26")

\* The script has run to its end on the values of the example.
ScenarioRanToEnd ==
    /\ IsScenarioRun
    /\ op.name = "remove"
    /\ Len(nodes) = 5
    /\ ret.kind = "node"


(***************************************************************************)
(* C15: for 0 < i < length, insert(i, v) returns true, increments length   *)
(* by one and yields old[0..i), v, old[i..length): the earlier elements    *)
(* keep their position, the later ones move up by one, and the head node   *)
(* and the tail node are the nodes they were.                              *)
(***************************************************************************)
InsertInMiddle ==
    (op.name = "insert" /\ 0 < op.index /\ op.index < pre.length) =>
        LET old == ValuesOf(pre)
            c   == Chain(pre)
            i   == op.index
        IN  /\ ret = RetBool(TRUE)
            /\ length = pre.length + 1
            /\ ValuesOf(This) = SubSeq(old, 1, i) \o <<op.value>>
                                    \o SubSeq(old, i + 1, Len(old))
            /\ Chain(This) = SubSeq(c, 1, i) \o <<Len(nodes)>>
                                 \o SubSeq(c, i + 1, Len(c))
            /\ head = pre.head
            /\ tail = pre.tail

\* insert has placed a node between two nodes of the list.
InsertedBetweenTwoNodes ==
    /\ op.name = "insert"
    /\ 0 < op.index
    /\ op.index < pre.length
    /\ ret = RetBool(TRUE)
    /\ length = pre.length + 1

(***************************************************************************)
(* C16: for 0 < i < length - 1, remove(i) returns the node that was at     *)
(* position i, decrements length by one and yields old[0..i),              *)
(* old[i+1..length); the head node and the tail node are the nodes they    *)
(* were.                                                                   *)
(***************************************************************************)
RemoveInMiddle ==
    (op.name = "remove" /\ 0 < op.index /\ op.index < pre.length - 1) =>
        LET old == ValuesOf(pre)
            c   == Chain(pre)
            i   == op.index
        IN  /\ ret = RetNode(c[i + 1])
            /\ ret.kind = "node"
            /\ length = pre.length - 1
            /\ ValuesOf(This) = SubSeq(old, 1, i) \o SubSeq(old, i + 2, Len(old))
            /\ Chain(This) = SubSeq(c, 1, i) \o SubSeq(c, i + 2, Len(c))
            /\ head = pre.head
            /\ tail = pre.tail

\* remove has taken out a node that had a predecessor and a successor.
RemovedBetweenTwoNodes ==
    /\ op.name = "remove"
    /\ 0 < op.index
    /\ op.index < pre.length - 1
    /\ ret.kind = "node"
    /\ length = pre.length - 1

(***************************************************************************)
(* C17: for 0 <= i < length, set(i, v) returns true and changes only the   *)
(* value of the node at position i to v: length, head, tail, every next    *)
(* link and every other value stay; for any other i it returns false and   *)
(* changes nothing.                                                        *)
(***************************************************************************)
SetChangesOneValue ==
    op.name = "set" =>
        IF 0 <= op.index /\ op.index < pre.length
        THEN LET n == Chain(pre)[op.index + 1]
             IN  /\ ret = RetBool(TRUE)
                 /\ nodes[n].value = op.value
                 /\ head = pre.head /\ tail = pre.tail /\ length = pre.length
                 /\ Len(nodes) = Len(pre.nodes)
                 /\ \A m \in 1 .. Len(nodes) :
                        /\ nodes[m].next = pre.nodes[m].next
                        /\ m # n => nodes[m].value = pre.nodes[m].value
        ELSE ret = RetBool(FALSE) /\ This = pre

\* set has overwritten a value with a different one in a list of several nodes.
ValueOverwritten ==
    /\ op.name = "set"
    /\ ret = RetBool(TRUE)
    /\ pre.length > 1
    /\ This # pre


(***************************************************************************)
(* C19: on every reachable list the loops end: the loop of pop after at    *)
(* most length - 1 iterations, the loop of get(index) after exactly index  *)
(* iterations for every index in range (out of range get returns before    *)
(* the loop), and the traversal of printList after exactly length          *)
(* iterations (one value collected per iteration).                         *)
(***************************************************************************)
LoopsEndWithinLength ==
    /\ head # NULL => popLoop(nodes, head, head, 0).steps <= length - 1
    /\ \A i \in Indices :
           IF 0 <= i /\ i < length
           THEN /\ getLoop(nodes, head, 0, i).steps = i
                /\ ~getLoop(nodes, head, 0, i).threw
           ELSE get(This, i).ret = RetNull
    /\ Len(printLoop(nodes, head, <<>>)) = length

\* get has walked two steps on a list of three nodes.
WalkedTwoSteps ==
    /\ op.name = "get"
    /\ op.index = 2
    /\ ret.kind = "node"
    /\ length = 3
    /\ popLoop(nodes, head, head, 0).steps = 2


(***************************************************************************)
(* C20: after any sequence of calls of Myarray from a new instance, the    *)
(* keys of data are exactly 0 .. length - 1 and the values in key order    *)
(* are the sequence in which push appends at the end, pop removes and      *)
(* returns the last element and shift removes and returns the first,       *)
(* keeping the others in their order; pop and shift on the empty container *)
(* leave data and length as they were, and length is never negative.       *)
(***************************************************************************)
ArraySeq(A) == [i \in 1 .. A.length |-> Read(A.data, i - 1)]

ArrayMatchesSequence ==
    LET old == ArraySeq(pre)
        new == ArraySeq(ArrayThis)
    IN  /\ length >= 0
        /\ DOMAIN data = 0 .. (length - 1)
        /\ op.name = "push" => new = Append(old, op.value)
        /\ op.name = "pop" =>
              IF pre.length = 0
              THEN ArrayThis = pre /\ ret.kind = "false"
              ELSE /\ new = SubSeq(old, 1, Len(old) - 1)
                   /\ ret = ArrayRet("value", old[Len(old)], 0)
        /\ op.name = "shift" =>
              IF pre.length = 0
              THEN ArrayThis = pre /\ ret.kind = "undefined"
              ELSE /\ new = Tail(old)
                   /\ ret = ArrayRet("value", old[1], 0)
        /\ op.name \in {"get", "getByvalue"} => ArrayThis = pre

\* shift has moved two elements down.
ShiftedThreeElements ==
    /\ op.name = "shift"
    /\ pre.length = 3
    /\ length = 2
    /\ ret.kind = "value"

====
